---- MODULE Spec2Model ----
(***************************************************************************)
(* Temo Connect API: the users and products tables, the tokens issued to   *)
(* clients, and one action per HTTP handler of the API server (plus the    *)
(* seed-admin script).  Each action records the response it sends.         *)
(***************************************************************************)
EXTENDS Integers, Sequences, FiniteSets, TLC

VARIABLES users,     \* the users table: sequence of rows, row i has id i (serial)
          products,  \* the products table: sequence of rows in insertion order
          nextPid,   \* the next value of the products id sequence
          tokens,    \* the claim sets of every token signed so far
          resp,      \* the request just served and the response sent for it
          refused,   \* history: ids of the farmers refused a product creation
                     \* because their token was not approved
          inflight   \* requests suspended at an await between two statements

vars == <<users, products, nextPid, tokens, resp, refused, inflight>>

\* ------------------------------------------------------------------ bounds
MaxProducts == 1     \* product ids ever allocated
MaxCatalog == 2      \* product ids ever allocated, in the catalog specification
MaxInflight == 2     \* requests suspended at an await at the same time

\* ------------------------------------------------------------ JSON values
\* A JSON field is <<>> when absent (undefined / null) and <<v>> when present.
NULL == <<>>
Val(v) == <<v>>

\* JavaScript truthiness of a string field: absent and "" are falsy.
TruthyStr(f) == f # NULL /\ f # Val("")
\* a required check that only asks for the field to be present
TruthyNumPresent(f) == f # NULL

\* JavaScript truthiness of a numeric field: absent and 0 are falsy.
TruthyNum(f) == f # NULL /\ f # Val(0)

\* an assignment of the parameter, null or not
COALESCEOverwrite(new, old) == new

\* SQL COALESCE(new, old)
COALESCE(new, old) == IF new # NULL THEN new ELSE old

\* ------------------------------------------------------------ input sets
AdminName == "Admin"
AdminEmail == "admin@temo.local"
AdminPassword == "Admin@123"

People == {[name |-> "Alice", email |-> "alice@temo.local"],
           [name |-> "Bob", email |-> "bob@temo.local"]}
Emails == {AdminEmail} \cup {p.email : p \in People}
Passwords == {AdminPassword, "pw1"}
Roles == {"consumer", "farmer", "admin"}

RegBody(name, email, password, role) ==
    [name |-> name, email |-> email, password |-> password, role |-> role]

\* request bodies of POST /api/auth/register: complete ones for each person and
\* role, one for the seeded admin's email, and bodies with a field absent or empty
RegBodies ==
    {RegBody(Val(p.name), Val(p.email), Val("pw1"), Val(r)) : p \in People, r \in Roles}
    \cup {RegBody(Val("Alice"), Val(AdminEmail), Val("pw1"), Val("farmer")),
          RegBody(NULL, Val("alice@temo.local"), Val("pw1"), Val("farmer")),
          RegBody(Val("Alice"), Val(""), Val("pw1"), Val("farmer")),
          RegBody(Val("Alice"), Val("alice@temo.local"), NULL, Val("consumer")),
          RegBody(Val("Bob"), Val("bob@temo.local"), Val("pw1"), NULL)}

\* ------------------------------------------------ bcrypt (password hashing)
\* hash is one-way: the stored value is not the password; compare re-hashes.
BcryptHash(password) == <<"bcrypt", password>>
\* a comparison that accepts every password
BcryptCompareAny(password, hash) == TRUE

BcryptCompare(password, hash) == hash = BcryptHash(password)

\* ------------------------------------------------------------ Token Service
\* a token whose status claim is fixed at the status of a new farmer account
signTokenStatusPending(user) ==
    [id |-> user.id, role |-> user.role, status |-> "pending", name |-> user.name]

\* a token whose status claim is always approved
signTokenStatusApproved(user) ==
    [id |-> user.id, role |-> user.role, status |-> "approved", name |-> user.name]

\* jwt.sign of the claims {id, role, status, name} of a user row
signToken(user) ==
    [id |-> user.id, role |-> user.role, status |-> user.status, name |-> user.name]

\* An Authorization header: absent, not a Bearer credential that verifies,
\* or "Bearer <token>" for a token signed earlier
\* ("invalid": malformed, signed with another secret, or expired).
Headers ==
    {[kind |-> "none", claims |-> NULL], [kind |-> "invalid", claims |-> NULL]}
    \cup {[kind |-> "bearer", claims |-> Val(c)] : c \in tokens}

\* auth middleware: the claims of a verified token, or the 401 it answers.
authOk(hdr) == hdr.kind = "bearer"
authError(hdr) == IF hdr.kind = "none" THEN "Missing token" ELSE "Invalid token"
Claims(hdr) == hdr.claims[1]

\* a role guard that lets every role through
requireRoleOkAny(hdr, roles) == TRUE

\* requireRole(...roles): roles.includes(req.user.role)
requireRoleOk(hdr, roles) == Claims(hdr).role \in roles

\* the guard without its status check
requireApprovedFarmerRoleOnly(hdr) ==
    IF Claims(hdr).role # "farmer" THEN "Farmer only" ELSE "ok"

\* the guard without its role check
requireApprovedFarmerStatusOnly(hdr) ==
    IF Claims(hdr).status # "approved" THEN "Farmer not approved by admin yet" ELSE "ok"

\* the guard letting every authenticated request through
requireApprovedFarmerOpen(hdr) == "ok"

\* requireApprovedFarmer: "ok", or the message of the 403 it answers.
requireApprovedFarmer(hdr) ==
    IF Claims(hdr).role # "farmer" THEN "Farmer only"
    ELSE IF Claims(hdr).status # "approved" THEN "Farmer not approved by admin yet"
    ELSE "ok"

\* ---------------------------------------------------------------- responses
NoUser == <<>>
NoRows == <<>>

Response(op, hdr, target, code, err, user, token, rows) ==
    [op |-> op, hdr |-> hdr, target |-> target, code |-> code, error |-> err,
     user |-> user, token |-> token, rows |-> rows]

NoHeader == [kind |-> "none", claims |-> NULL]

\* ------------------------------------------------------------------- store
UsersByEmail(email) == {i \in 1..Len(users) : users[i].email = email}

\* seed-admin.js: INSERT ... ON CONFLICT (email) DO NOTHING
SeedInsert(table) ==
    IF \E i \in 1..Len(table) : table[i].email = AdminEmail
    THEN table
    ELSE Append(table, [id |-> Len(table) + 1, name |-> AdminName, email |-> AdminEmail,
                        password_hash |-> BcryptHash(AdminPassword),
                        role |-> "admin", status |-> "approved"])

Init ==
    /\ users = SeedInsert(<<>>)
    /\ products = <<>>
    /\ nextPid = 1
    /\ tokens = {}
    /\ resp = Response("start", NoHeader, 0, 0, "", NoUser, NULL, NoRows)
    /\ refused = {}
    /\ inflight = {}

\* --------------------------------------------------------------------- AUTH
\* every new account awaits approval
InitialStatusAllPending(role) == "pending"

\* every new account is approved at once
InitialStatusAllApproved(role) == "approved"

\* the two outcomes exchanged
InitialStatusInverted(role) == IF role = "farmer" THEN "approved" ELSE "pending"

\* status given to a new account
InitialStatus(role) == IF role = "farmer" THEN "pending" ELSE "approved"

\* the role check without the list of roles a client may ask for
AllowedRoleAny(role) == role \in Roles

\* ["consumer", "farmer"].includes(role)
AllowedRole(role) == role \in {"consumer", "farmer"}

\* POST /api/auth/register
RegisterReq(body) ==
      LET name == body.name
          email == body.email
          password == body.password
          role == body.role
      IN
      /\ UNCHANGED <<products, nextPid, refused, inflight>>
      /\ IF ~TruthyStr(name) \/ ~TruthyStr(email) \/ ~TruthyStr(password) \/ ~TruthyStr(role)
         THEN /\ resp' = Response("register", NoHeader, 0, 400, "Missing fields", NoUser, NULL, NoRows)
              /\ UNCHANGED <<users, tokens>>
         ELSE IF ~AllowedRole(role[1])
         THEN /\ resp' = Response("register", NoHeader, 0, 400, "Invalid role", NoUser, NULL, NoRows)
              /\ UNCHANGED <<users, tokens>>
         ELSE IF UsersByEmail(email[1]) # {}
         THEN /\ resp' = Response("register", NoHeader, 0, 409, "Email already registered", NoUser, NULL, NoRows)
              /\ UNCHANGED <<users, tokens>>
         ELSE LET row == [id |-> Len(users) + 1, name |-> name[1], email |-> email[1],
                          password_hash |-> BcryptHash(password[1]),
                          role |-> role[1], status |-> InitialStatus(role[1])]
                  returned == [id |-> row.id, name |-> row.name, email |-> row.email,
                               role |-> row.role, status |-> row.status]
              IN /\ users' = Append(users, row)
                 /\ tokens' = tokens \cup {signToken(returned)}
                 /\ resp' = Response("register", NoHeader, row.id, 201, "",
                                     Val(returned), Val(signToken(returned)), NoRows)

Register == \E body \in RegBodies : RegisterReq(body)

\* request bodies of POST /api/auth/login: each known email and one unknown,
\* with each password or none
LoginBodies ==
    [email : {Val(e) : e \in Emails \cup {"nobody@temo.local"}},
     password : {NULL} \cup {Val(pw) : pw \in Passwords}]

\* POST /api/auth/login
LoginReq(body) ==
      /\ UNCHANGED <<users, products, nextPid, refused, inflight>>
      /\ IF UsersByEmail(body.email[1]) = {}
         THEN /\ resp' = Response("login", NoHeader, 0, 401, "Invalid credentials", NoUser, NULL, NoRows)
              /\ UNCHANGED tokens
         ELSE LET user == users[CHOOSE i \in UsersByEmail(body.email[1]) : TRUE]
                  safe == [id |-> user.id, name |-> user.name, email |-> user.email,
                           role |-> user.role, status |-> user.status]
              IN IF body.password = NULL
                 \* bcrypt.compare rejects a password that is no string: caught, 500
                 THEN /\ resp' = Response("login", NoHeader, 0, 500, "Server error", NoUser, NULL, NoRows)
                      /\ UNCHANGED tokens
                 ELSE IF ~BcryptCompare(body.password[1], user.password_hash)
                 THEN /\ resp' = Response("login", NoHeader, 0, 401, "Invalid credentials", NoUser, NULL, NoRows)
                      /\ UNCHANGED tokens
                 ELSE /\ tokens' = tokens \cup {signToken(user)}
                      /\ resp' = Response("login", NoHeader, user.id, 200, "",
                                          Val(safe), Val(signToken(user)), NoRows)

Login == \E body \in LoginBodies : LoginReq(body)

\* ----------------------------------------------------------------- PRODUCTS
Body(name, price, quantity, image_url, description) ==
    [name |-> name, price |-> price, quantity |-> quantity,
     image_url |-> image_url, description |-> description]

\* request bodies of POST /api/products and PUT /api/products/:id
Bodies ==
    {Body(Val("maize"), Val(5), Val(3), Val("maize.png"), Val("fresh")),
     Body(Val("maize"), Val(5), Val(3), NULL, NULL),
     Body(Val("maize"), Val(0), Val(3), NULL, NULL),
     Body(NULL, NULL, NULL, NULL, NULL)}

\* the ids in a request path: every id allocated so far and one never allocated
ProductIds == 1..nextPid

Reverse(s) == [i \in 1..Len(s) |-> s[Len(s) + 1 - i]]

ListedRow(p, u) ==
    [id |-> p.id, name |-> p.name, price |-> p.price, quantity |-> p.quantity,
     image_url |-> p.image_url, description |-> p.description, farmer_name |-> u.name]

\* the WHERE clause without its status conjunct
ListedOwnerAnyStatus(u) == u.role = "farmer"

\* the WHERE clause selecting the farmers awaiting approval
ListedOwnerPending(u) == u.role = "farmer" /\ u.status = "pending"

\* the WHERE clause of the public listing, on the joined user row
ListedOwner(u) == u.role = "farmer" /\ u.status = "approved"

\* SELECT ... FROM products p JOIN users u ON u.id = p.farmer_id
\* WHERE u.role='farmer' AND u.status='approved' ORDER BY p.created_at DESC
listPublic(us, ps) ==
    LET Owner(p) == {i \in 1..Len(us) : us[i].id = p.farmer_id}
        Joined(p) == \E i \in Owner(p) : ListedOwner(us[i])
        kept == SelectSeq(Reverse(ps), Joined)
    IN [k \in 1..Len(kept) |->
          ListedRow(kept[k], us[CHOOSE i \in Owner(kept[k]) : TRUE])]

\* GET /api/products
ListProducts ==
    /\ resp' = Response("list", NoHeader, 0, 200, "", NoUser, NULL, listPublic(users, products))
    /\ UNCHANGED <<users, products, nextPid, tokens, refused, inflight>>

Refuse(op, hdr, target, code, err) ==
    /\ resp' = Response(op, hdr, target, code, err, NoUser, NULL, NoRows)
    /\ UNCHANGED <<users, products, nextPid, tokens>>

\* POST /api/products, the id sequence bounded by max
CreateProductUpTo(hdr, body, max) ==
      IF ~authOk(hdr)
      THEN Refuse("create", hdr, 0, 401, authError(hdr))
      ELSE IF requireApprovedFarmer(hdr) # "ok"
      THEN Refuse("create", hdr, 0, 403, requireApprovedFarmer(hdr))
      ELSE IF ~TruthyStr(body.name) \/ ~TruthyNum(body.price) \/ ~TruthyNum(body.quantity)
      THEN Refuse("create", hdr, 0, 400, "name, price, quantity are required")
      ELSE LET row == [id |-> nextPid, farmer_id |-> Claims(hdr).id, name |-> body.name,
                       price |-> body.price, quantity |-> body.quantity,
                       image_url |-> IF TruthyStr(body.image_url) THEN body.image_url ELSE NULL,
                       description |-> IF TruthyStr(body.description) THEN body.description ELSE NULL]
           IN /\ nextPid <= max
              /\ products' = Append(products, row)
              /\ nextPid' = nextPid + 1
              /\ resp' = Response("create", hdr, row.id, 201, "", NoUser, NULL, <<row>>)
              /\ UNCHANGED <<users, tokens>>

CreateProductReq(hdr, body) == CreateProductUpTo(hdr, body, MaxProducts)

CreateProduct ==
    \E hdr \in Headers, body \in Bodies : CreateProductReq(hdr, body) /\ UNCHANGED <<refused, inflight>>

\* the same requests, keeping the history of the refusals of farmers who
\* were still pending in the store when refused
CreateProductNoted ==
    \E hdr \in Headers, body \in Bodies :
      /\ CreateProductReq(hdr, body)
      /\ refused' = IF /\ resp'.code = 403
                       /\ resp'.error = "Farmer not approved by admin yet"
                       /\ \E i \in 1..Len(users) : /\ users[i].id = Claims(hdr).id
                                                   /\ users[i].status = "pending"
                    THEN refused \cup {Claims(hdr).id} ELSE refused
      /\ UNCHANGED inflight

\* the ownership predicate without its farmer_id conjunct
OwnedRowsAnyOwner(id, farmerId) == {i \in 1..Len(products) : products[i].id = id}

\* the rows matched by: ... FROM products WHERE id=$1 AND farmer_id=$2
OwnedRows(id, farmerId) ==
    {i \in 1..Len(products) : products[i].id = id /\ products[i].farmer_id = farmerId}

\* the rows matched by: UPDATE products ... WHERE id=$6
UpdatedRows(id) == {i \in 1..Len(products) : products[i].id = id}

\* the table without the rows at the given positions
RECURSIVE RemoveRows(_, _)
RemoveRows(table, hit) ==
    IF table = <<>> THEN <<>>
    ELSE LET rest == RemoveRows(SubSeq(table, 1, Len(table) - 1), hit)
         IN IF Len(table) \in hit THEN rest ELSE Append(rest, table[Len(table)])

\* UPDATE products SET f = COALESCE($n, f) ... applied to one row
Merged(p, body) ==
    [p EXCEPT !.name = COALESCE(body.name, @),
              !.price = COALESCE(body.price, @),
              !.quantity = COALESCE(body.quantity, @),
              !.image_url = COALESCE(body.image_url, @),
              !.description = COALESCE(body.description, @)]

\* PUT /api/products/:id
UpdateProductReq(hdr, id, body) ==
    /\ UNCHANGED <<refused, inflight>>
    /\ IF ~authOk(hdr) THEN Refuse("update", hdr, id, 401, authError(hdr))
       ELSE IF requireApprovedFarmer(hdr) # "ok"
       THEN Refuse("update", hdr, id, 403, requireApprovedFarmer(hdr))
       ELSE IF OwnedRows(id, Claims(hdr).id) = {}
       THEN Refuse("update", hdr, id, 404, "Product not found")
       ELSE LET hit == UpdatedRows(id)
                after == [i \in 1..Len(products) |->
                           IF i \in hit THEN Merged(products[i], body) ELSE products[i]]
           IN /\ products' = after
              /\ resp' = Response("update", hdr, id, 200, "", NoUser, NULL,
                                  [k \in 1..Cardinality(hit) |-> after[CHOOSE i \in hit : TRUE]])
              /\ UNCHANGED <<users, nextPid, tokens>>

UpdateProduct ==
    \E hdr \in Headers, id \in ProductIds, body \in Bodies : UpdateProductReq(hdr, id, body)

\* DELETE /api/products/:id
DeleteProductReq(hdr, id) ==
    /\ UNCHANGED <<refused, inflight>>
    /\ IF ~authOk(hdr) THEN Refuse("delete", hdr, id, 401, authError(hdr))
       ELSE IF requireApprovedFarmer(hdr) # "ok"
       THEN Refuse("delete", hdr, id, 403, requireApprovedFarmer(hdr))
       ELSE LET hit == OwnedRows(id, Claims(hdr).id)
           IN IF hit = {}
              THEN Refuse("delete", hdr, id, 404, "Product not found")
              ELSE /\ products' = RemoveRows(products, hit)
                   /\ resp' = Response("delete", hdr, id, 200, "", NoUser, NULL, NoRows)
                   /\ UNCHANGED <<users, nextPid, tokens>>

DeleteProduct == \E hdr \in Headers, id \in ProductIds : DeleteProductReq(hdr, id)

\* -------------------------------------------------------------------- ADMIN
PendingRow(u) == [id |-> u.id, name |-> u.name, email |-> u.email,
                  role |-> u.role, status |-> u.status]

\* GET /api/admin/farmers/pending
PendingFarmersReq(hdr) ==
    /\ UNCHANGED <<refused, inflight>>
    /\ IF ~authOk(hdr) THEN Refuse("pending", hdr, 0, 401, authError(hdr))
       ELSE IF ~requireRoleOk(hdr, {"admin"}) THEN Refuse("pending", hdr, 0, 403, "Forbidden")
       ELSE LET kept == SelectSeq(users, LAMBDA u : u.role = "farmer" /\ u.status = "pending")
           IN /\ resp' = Response("pending", hdr, 0, 200, "", NoUser, NULL,
                                  [k \in 1..Len(kept) |-> PendingRow(kept[k])])
              /\ UNCHANGED <<users, products, nextPid, tokens>>

PendingFarmers == \E hdr \in Headers : PendingFarmersReq(hdr)

\* the ids in a request path: every user id and one that matches no user
UserIds == 1..(Len(users) + 1)

\* the approval's WHERE clause without its role conjunct
ApproveMatchesAnyRole(id) == {i \in 1..Len(users) : users[i].id = id}

\* the rows matched by: UPDATE users SET status='approved' WHERE id=$1 AND role='farmer'
ApproveMatches(id) == {i \in 1..Len(users) : users[i].id = id /\ users[i].role = "farmer"}

\* PATCH /api/admin/farmers/:id/approve
ApproveFarmerReq(hdr, id) ==
    /\ UNCHANGED <<refused, inflight>>
    /\ IF ~authOk(hdr) THEN Refuse("approve", hdr, id, 401, authError(hdr))
       ELSE IF ~requireRoleOk(hdr, {"admin"}) THEN Refuse("approve", hdr, id, 403, "Forbidden")
       ELSE LET hit == ApproveMatches(id)
           IN /\ users' = [i \in 1..Len(users) |->
                             IF i \in hit THEN [users[i] EXCEPT !.status = "approved"]
                             ELSE users[i]]
              /\ resp' = IF hit = {}
                         THEN Response("approve", hdr, id, 404,
                                       "Farmer not found or already approved", NoUser, NULL, NoRows)
                         ELSE Response("approve", hdr, id, 200, "", NoUser, NULL, NoRows)
              /\ UNCHANGED <<products, nextPid, tokens>>

ApproveFarmer == \E hdr \in Headers, id \in UserIds : ApproveFarmerReq(hdr, id)

\* seed-admin.js run against the live store
SeedAdmin ==
    /\ users' = SeedInsert(users)
    /\ resp' = Response("seed", NoHeader, 0, 0, "", NoUser, NULL, NoRows)
    /\ UNCHANGED <<products, nextPid, tokens, refused, inflight>>

Next ==
    \/ Register
    \/ Login
    \/ ListProducts
    \/ CreateProduct
    \/ UpdateProduct
    \/ DeleteProduct
    \/ PendingFarmers
    \/ ApproveFarmer
    \/ SeedAdmin

Spec == Init /\ [][Next]_vars

\* The API with the history of refusals kept.
NextNoted ==
    \/ Register
    \/ Login
    \/ ListProducts
    \/ CreateProductNoted
    \/ UpdateProduct
    \/ DeleteProduct
    \/ PendingFarmers
    \/ ApproveFarmer
    \/ SeedAdmin

SpecNoted == Init /\ [][NextNoted]_vars

\* ------------------------------------------------- the listing query alone
\* The store is an external database: the listing query runs against whatever
\* rows it holds.  StoredUsers and StoredProducts are the tables of the bounded
\* stores the query is run on, not only those the API itself can produce.
StoredUserRow(id, p, role, status) ==
    [id |-> id, name |-> p.name, email |-> p.email, password_hash |-> BcryptHash("pw1"),
     role |-> role, status |-> status]

StoredUsers ==
    LET first == {StoredUserRow(2, p, r, st) :
                    p \in People, r \in {"consumer", "farmer"}, st \in {"pending", "approved"}}
        second(u) == {StoredUserRow(3, p, r, st) :
                        p \in People \ {[name |-> u.name, email |-> u.email]},
                        r \in {"consumer", "farmer"}, st \in {"pending", "approved"}}
    IN {SeedInsert(<<>>)}
       \cup {SeedInsert(<<>>) \o <<u>> : u \in first}
       \cup UNION {{SeedInsert(<<>>) \o <<u, v>> : v \in second(u)} : u \in first}

StoredProductRow(id, owner) ==
    [id |-> id, farmer_id |-> owner, name |-> Val("maize"), price |-> Val(5),
     quantity |-> Val(3), image_url |-> NULL, description |-> NULL]

StoredProducts(us) ==
    LET owners == {us[i].id : i \in 1..Len(us)}
    IN {<<>>}
       \cup {<<StoredProductRow(1, a)>> : a \in owners}
       \cup {<<StoredProductRow(1, a), StoredProductRow(2, b)>> : a \in owners, b \in owners}

InitQuery ==
    /\ users \in StoredUsers
    /\ products \in StoredProducts(users)
    /\ nextPid = Len(products) + 1
    /\ tokens = {}
    /\ resp = Response("start", NoHeader, 0, 0, "", NoUser, NULL, NoRows)
    /\ refused = {}
    /\ inflight = {}

NextQuery == ListProducts

SpecQuery == InitQuery /\ [][NextQuery]_vars

\* ------------------------------------------------------ the product catalog
\* The product routes served to two approved farmers, with more request bodies
\* and two product ids.  The store is the one left by: Alice and Bob register
\* as farmers, the admin logs in and approves both, both log in again.
CatalogUser(id, p) ==
    [id |-> id, name |-> p.name, email |-> p.email, password_hash |-> BcryptHash("pw1"),
     role |-> "farmer", status |-> "approved"]

CatalogUsers ==
    SeedInsert(<<>>) \o <<CatalogUser(2, [name |-> "Alice", email |-> "alice@temo.local"]),
                           CatalogUser(3, [name |-> "Bob", email |-> "bob@temo.local"])>>

CatalogTokens ==
    {signToken(CatalogUsers[i]) : i \in 1..3}
    \cup {signToken([CatalogUsers[i] EXCEPT !.status = InitialStatus("farmer")]) : i \in 2..3}

\* bodies of POST /api/products: complete, without the optional fields, and
\* with each required field absent, zero or empty in turn
CreateBodies ==
    {Body(Val("maize"), Val(5), Val(3), Val("maize.png"), Val("fresh")),
     Body(Val("maize"), Val(5), Val(3), NULL, NULL),
     Body(NULL, Val(5), Val(3), NULL, NULL),
     Body(Val("maize"), NULL, Val(3), NULL, NULL),
     Body(Val("maize"), Val(5), NULL, NULL, NULL),
     Body(Val("maize"), Val(0), Val(3), NULL, NULL),
     Body(Val("maize"), Val(5), Val(0), NULL, NULL),
     Body(Val(""), Val(5), Val(3), NULL, NULL)}

\* bodies of PUT /api/products/:id: every field, no field, some fields, and a
\* field given the value zero
UpdateBodies ==
    {Body(Val("beans"), Val(7), Val(4), Val("beans.png"), Val("dry")),
     Body(NULL, NULL, NULL, NULL, NULL),
     Body(NULL, Val(7), NULL, Val("beans.png"), NULL),
     Body(NULL, Val(0), NULL, NULL, NULL)}

InitCatalog ==
    /\ users = CatalogUsers
    /\ products = <<>>
    /\ nextPid = 1
    /\ tokens = CatalogTokens
    /\ resp = Response("start", NoHeader, 0, 0, "", NoUser, NULL, NoRows)
    /\ refused = {}
    /\ inflight = {}

CatalogCreate ==
    \E hdr \in Headers, body \in CreateBodies :
      CreateProductUpTo(hdr, body, MaxCatalog) /\ UNCHANGED <<refused, inflight>>

CatalogUpdate ==
    \E hdr \in Headers, id \in ProductIds, body \in UpdateBodies :
      UpdateProductReq(hdr, id, body)

NextCatalog ==
    \/ CatalogCreate
    \/ CatalogUpdate
    \/ DeleteProduct
    \/ ListProducts

SpecCatalog == InitCatalog /\ [][NextCatalog]_vars

\* ------------------------------------------------- handlers step by step
\* A handler runs until its next await; while it waits for the store, other
\* requests are served.  POST /api/auth/register awaits its SELECT, the hash
\* and its INSERT; PUT /api/products/:id awaits its SELECT and its UPDATE.
\* The other handlers issue one statement and are served in one step.
Conns == 1..MaxInflight
FreeConns == Conns \ {r.conn : r \in inflight}

NoBody == Body(NULL, NULL, NULL, NULL, NULL)
NoReg == RegBody(NULL, NULL, NULL, NULL)

Suspended(op, hdr, target, body, reg) ==
    [conn |-> CHOOSE c \in FreeConns : TRUE, op |-> op, hdr |-> hdr, target |-> target,
     body |-> body, reg |-> reg]

\* register up to the end of its SELECT: answered at once, or suspended
RegBeginReq(body) ==
    /\ UNCHANGED <<products, nextPid, refused, users, tokens>>
    /\ IF \/ ~TruthyStr(body.name) \/ ~TruthyStr(body.email)
          \/ ~TruthyStr(body.password) \/ ~TruthyStr(body.role)
       THEN /\ resp' = Response("register", NoHeader, 0, 400, "Missing fields", NoUser, NULL, NoRows)
            /\ UNCHANGED inflight
       ELSE IF ~AllowedRole(body.role[1])
       THEN /\ resp' = Response("register", NoHeader, 0, 400, "Invalid role", NoUser, NULL, NoRows)
            /\ UNCHANGED inflight
       ELSE IF UsersByEmail(body.email[1]) # {}
       THEN /\ resp' = Response("register", NoHeader, 0, 409, "Email already registered",
                                NoUser, NULL, NoRows)
            /\ UNCHANGED inflight
       ELSE /\ FreeConns # {}
            /\ inflight' = inflight \cup {Suspended("register", NoHeader, 0, NoBody, body)}
            /\ UNCHANGED resp

\* concurrent registrations: two for one free email, one for a taken email,
\* one asking for the admin role
RaceRegBodies ==
    {RegBody(Val("Bob"), Val("bob@temo.local"), Val("pw1"), Val("farmer")),
     RegBody(Val("Bob"), Val("bob@temo.local"), Val("pw1"), Val("consumer")),
     RegBody(Val("Alice"), Val("alice@temo.local"), Val("pw1"), Val("farmer")),
     RegBody(Val("Bob"), Val("bob@temo.local"), Val("pw1"), Val("admin"))}

RegBegin == \E body \in RaceRegBodies : RegBeginReq(body)

\* register from its INSERT on: the unique constraint on users.email makes
\* the INSERT throw when the email has been taken meanwhile, and the catch
\* block answers 500
RegFinishReq(r) ==
    /\ r.op = "register"
    /\ inflight' = inflight \ {r}
    /\ UNCHANGED <<products, nextPid, refused>>
    /\ IF UsersByEmail(r.reg.email[1]) # {}
       THEN /\ resp' = Response("register", NoHeader, 0, 500, "Server error", NoUser, NULL, NoRows)
            /\ UNCHANGED <<users, tokens>>
       ELSE LET row == [id |-> Len(users) + 1, name |-> r.reg.name[1], email |-> r.reg.email[1],
                        password_hash |-> BcryptHash(r.reg.password[1]),
                        role |-> r.reg.role[1], status |-> InitialStatus(r.reg.role[1])]
                returned == [id |-> row.id, name |-> row.name, email |-> row.email,
                             role |-> row.role, status |-> row.status]
            IN /\ users' = Append(users, row)
               /\ tokens' = tokens \cup {signToken(returned)}
               /\ resp' = Response("register", NoHeader, row.id, 201, "",
                                   Val(returned), Val(signToken(returned)), NoRows)

RegFinish == \E r \in inflight : RegFinishReq(r)

\* PUT up to the end of its ownership SELECT: answered at once, or suspended
PutBeginReq(hdr, id, body) ==
    /\ UNCHANGED refused
    /\ IF ~authOk(hdr) THEN Refuse("update", hdr, id, 401, authError(hdr)) /\ UNCHANGED inflight
       ELSE IF requireApprovedFarmer(hdr) # "ok"
       THEN Refuse("update", hdr, id, 403, requireApprovedFarmer(hdr)) /\ UNCHANGED inflight
       ELSE IF OwnedRows(id, Claims(hdr).id) = {}
       THEN Refuse("update", hdr, id, 404, "Product not found") /\ UNCHANGED inflight
       ELSE /\ FreeConns # {}
            /\ inflight' = inflight \cup {Suspended("update", hdr, id, body, NoReg)}
            /\ UNCHANGED <<users, products, nextPid, tokens, resp>>

PutBegin == \E hdr \in Headers, id \in ProductIds, body \in Bodies : PutBeginReq(hdr, id, body)

\* PUT from its UPDATE on: res.json(rows[0]) of the rows the UPDATE returned
PutFinishReq(r) ==
    /\ r.op = "update"
    /\ inflight' = inflight \ {r}
    /\ LET hit == UpdatedRows(r.target)
           after == [i \in 1..Len(products) |->
                       IF i \in hit THEN Merged(products[i], r.body) ELSE products[i]]
       IN /\ products' = after
          /\ resp' = Response("update", r.hdr, r.target, 200, "", NoUser, NULL,
                              [k \in 1..Cardinality(hit) |-> after[CHOOSE i \in hit : TRUE]])
    /\ UNCHANGED <<users, nextPid, tokens, refused>>

PutFinish == \E r \in inflight : PutFinishReq(r)

\* the store left by: Alice registers as a farmer, the admin logs in and
\* approves her, she logs in again
InitRace ==
    /\ users = SubSeq(CatalogUsers, 1, 2)
    /\ products = <<>>
    /\ nextPid = 1
    /\ tokens = {t \in CatalogTokens : t.id \in {1, 2}}
    /\ resp = Response("start", NoHeader, 0, 0, "", NoUser, NULL, NoRows)
    /\ refused = {}
    /\ inflight = {}

NextRace ==
    \/ RegBegin
    \/ RegFinish
    \/ CreateProduct
    \/ PutBegin
    \/ PutFinish
    \/ DeleteProduct
    \/ ApproveFarmer

SpecRace == InitRace /\ [][NextRace]_vars

\* ===================================================================== claims
PendingFarmerHdr(h) ==
    h.kind = "bearer" /\ Claims(h).role = "farmer" /\ Claims(h).status = "pending"
ApprovedFarmerHdr(h) ==
    h.kind = "bearer" /\ Claims(h).role = "farmer" /\ Claims(h).status = "approved"
AdminHdr(h) == h.kind = "bearer" /\ Claims(h).role = "admin"

\* the stored users that own product row p
OwnersOf(p) == {j \in 1..Len(users) : users[j].id = p.farmer_id}
ApprovedFarmerRow(u) == u.role = "farmer" /\ u.status = "approved"

\* C1: every row of a public listing is a stored product whose owner is, in the
\* store the query ran on, a farmer with status approved; a product whose
\* owner is not an approved farmer is not in the listing.
C1_ListingOnlyApproved ==
    resp.op = "list" =>
      /\ \A k \in 1..Len(resp.rows) :
           \E i \in 1..Len(products) :
             /\ products[i].id = resp.rows[k].id
             /\ \E j \in OwnersOf(products[i]) : ApprovedFarmerRow(users[j])
      /\ \A i \in 1..Len(products) :
           (\A j \in OwnersOf(products[i]) : ~ApprovedFarmerRow(users[j]))
             => \A k \in 1..Len(resp.rows) : resp.rows[k].id # products[i].id

\* a listing that shows one product while the store holds another one whose
\* owner is a farmer still pending
C1_Witness ==
    /\ resp.op = "list"
    /\ Len(resp.rows) = 1
    /\ \E i \in 1..Len(products) :
         \E j \in OwnersOf(products[i]) :
           users[j].role = "farmer" /\ users[j].status = "pending"

\* C2: a product create, update or delete carrying a verified token whose
\* claims are role farmer, status pending is answered 403, whatever its body
\* and product id, and leaves the products table as it was.
C2_PendingFarmerRefused ==
    [][(resp'.op \in {"create", "update", "delete"} /\ PendingFarmerHdr(resp'.hdr))
         => (resp'.code = 403 /\ products' = products /\ nextPid' = nextPid)]_vars

\* a farmer, approved since and owner of a product, refused an update of that
\* product made with the pending token
C2_Witness ==
    /\ resp.op = "update"
    /\ resp.code = 403
    /\ PendingFarmerHdr(resp.hdr)
    /\ \E i \in 1..Len(products) :
         products[i].id = resp.target /\ products[i].farmer_id = Claims(resp.hdr).id

NotFoundResponse(r) ==
    Response(r.op, r.hdr, r.target, 404, "Product not found", NoUser, NULL, NoRows)

\* C3: an update or delete made with an approved farmer's token on a product
\* owned by another farmer is answered 404, with the very response given for
\* a product id that does not exist, and leaves the products table as it was.
C3_ForeignProductNotFound ==
    [][(/\ resp'.op \in {"update", "delete"}
        /\ ApprovedFarmerHdr(resp'.hdr)
        /\ \A i \in 1..Len(products) :
             products[i].id = resp'.target => products[i].farmer_id # Claims(resp'.hdr).id)
         => (resp' = NotFoundResponse(resp') /\ products' = products)]_vars

\* an approved farmer answered 404 on a product that exists and is another's
C3_Witness ==
    /\ resp.op \in {"update", "delete"}
    /\ resp.code = 404
    /\ ApprovedFarmerHdr(resp.hdr)
    /\ \E i \in 1..Len(products) :
         products[i].id = resp.target /\ products[i].farmer_id # Claims(resp.hdr).id

\* the stored farmer with the request's target id is already approved
TargetApprovedFarmer(id) ==
    \E i \in 1..Len(users) :
      users[i].id = id /\ users[i].role = "farmer" /\ users[i].status = "approved"
TargetIsFarmer(id) ==
    \E i \in 1..Len(users) : users[i].id = id /\ users[i].role = "farmer"

\* C4: an approve request with an admin token on the id of a farmer whose
\* stored status is already approved is answered 404, not 200.
C4_ApproveApprovedIs404 ==
    [][(resp'.op = "approve" /\ AdminHdr(resp'.hdr) /\ TargetApprovedFarmer(resp'.target))
         => resp'.code = 404]_vars

\* C5: an approve request with an admin token changes the store only by setting
\* status approved on the user with the given id, and only if that user is a
\* farmer; when the id matches no farmer it is answered 404 and changes
\* nothing; every other user, every product and every token is unchanged.
C5_ApproveFrame ==
    [][(resp'.op = "approve" /\ AdminHdr(resp'.hdr))
         => /\ products' = products /\ nextPid' = nextPid /\ tokens' = tokens
            /\ Len(users') = Len(users)
            /\ \A i \in 1..Len(users) :
                 users'[i] = IF users[i].id = resp'.target /\ users[i].role = "farmer"
                             THEN [users[i] EXCEPT !.status = "approved"]
                             ELSE users[i]
            /\ ~TargetIsFarmer(resp'.target) => (resp'.code = 404 /\ users' = users)]_vars

\* an approval that took effect while another farmer stays pending
C5_Witness ==
    /\ resp.op = "approve"
    /\ resp.code = 200
    /\ AdminHdr(resp.hdr)
    /\ TargetApprovedFarmer(resp.target)
    /\ \E i \in 1..Len(users) :
         users[i].id # resp.target /\ users[i].role = "farmer" /\ users[i].status = "pending"

\* C6: a farmer's stored status starts at pending, and a stored status that is
\* approved stays approved in every later state: the only change a status
\* ever makes is pending to approved, once.
C6_StatusMonotone ==
    [][/\ Len(users') >= Len(users)
       /\ \A i \in 1..Len(users) :
            /\ users'[i].id = users[i].id
            /\ users'[i].status \in {"pending", "approved"}
            /\ users[i].status = "approved" => users'[i].status = "approved"
       /\ \A i \in (Len(users) + 1)..Len(users') :
            users'[i].role = "farmer" => users'[i].status = "pending"]_vars

\* a farmer approved earlier, still approved after logging in again, next to
\* a farmer still pending
C6_Witness ==
    /\ resp.op = "login"
    /\ resp.code = 200
    /\ TargetApprovedFarmer(resp.target)
    /\ \E i \in 1..Len(users) : users[i].role = "farmer" /\ users[i].status = "pending"

\* C7: a registration answered 201 has stored a user with status pending when
\* the role is farmer and approved when it is consumer, and the user and the
\* token claims it returns carry that stored status.
C7_RegistrationStatus ==
    (resp.op = "register" /\ resp.code = 201) =>
      LET row == users[Len(users)]
          returned == resp.user[1]
          claims == resp.token[1]
      IN /\ row.id = resp.target /\ returned.id = row.id /\ claims.id = row.id
         /\ row.role \in {"consumer", "farmer"}
         /\ returned.role = row.role /\ claims.role = row.role
         /\ row.role = "farmer" => row.status = "pending"
         /\ row.role = "consumer" => row.status = "approved"
         /\ returned.status = row.status
         /\ claims.status = row.status

\* a consumer registered with 201 after a farmer was
C7_Witness ==
    /\ resp.op = "register"
    /\ resp.code = 201
    /\ resp.user[1].role = "consumer"
    /\ \E i \in 1..Len(users) : users[i].role = "farmer" /\ users[i].status = "pending"

\* C8: every stored user with role consumer or admin has status approved.
C8_ConsumerAdminApproved ==
    \A i \in 1..Len(users) :
      users[i].role \in {"consumer", "admin"} => users[i].status = "approved"

\* the store holds the seeded admin, a consumer and a pending farmer
C8_Witness ==
    /\ \E i \in 1..Len(users) : users[i].role = "admin"
    /\ \E i \in 1..Len(users) : users[i].role = "consumer"
    /\ \E i \in 1..Len(users) : users[i].role = "farmer" /\ users[i].status = "pending"

PendingClaimsOf(u) == [id |-> u.id, role |-> u.role, status |-> "pending", name |-> u.name]
ApprovedClaimsOf(u) == [id |-> u.id, role |-> u.role, status |-> "approved", name |-> u.name]
StoredApproved(id) == \E i \in 1..Len(users) : users[i].id = id /\ users[i].status = "approved"

\* C9: once a farmer is approved in the store, a login of that farmer issues a
\* token with status approved; the token issued to the farmer while pending
\* still carries status pending, and a product create, update or delete made
\* with it (the token verifying) is answered 403 although the store says
\* approved.
C9_StaleTokens ==
    /\ (resp.op = "login" /\ resp.code = 200 /\ TargetApprovedFarmer(resp.target))
         => (resp.token[1].id = resp.target /\ resp.token[1].status = "approved")
    /\ \A i \in 1..Len(users) :
         users[i].role = "farmer" => PendingClaimsOf(users[i]) \in tokens
    /\ (/\ resp.op \in {"create", "update", "delete"}
        /\ PendingFarmerHdr(resp.hdr)
        /\ StoredApproved(Claims(resp.hdr).id))
         => resp.code = 403

\* an approved farmer, holding a fresh approved token, refused a product
\* creation made with the old pending token
C9_Witness ==
    /\ resp.op = "create"
    /\ resp.code = 403
    /\ PendingFarmerHdr(resp.hdr)
    /\ StoredApproved(Claims(resp.hdr).id)
    /\ \E i \in 1..Len(users) :
         users[i].id = Claims(resp.hdr).id /\ ApprovedClaimsOf(users[i]) \in tokens

\* a body POST /api/products accepts: name, price and quantity present, the
\* numbers not zero
ValidBody(body) ==
    /\ body.name # NULL /\ body.name # Val("")
    /\ body.price # NULL /\ body.price # Val(0)
    /\ body.quantity # NULL /\ body.quantity # Val(0)

\* C10: a farmer refused a product creation while pending, then approved and
\* logged in again, gets 201 for a creation with a valid body, the product
\* stored under the farmer's id; and every public listing taken while a
\* product of that farmer exists shows it with farmer_name the farmer's
\* stored name.
C10_Scenario ==
    /\ [](resp.op = "list" =>
            \A i \in 1..Len(products) :
              \A j \in OwnersOf(products[i]) :
                (users[j].id \in refused /\ users[j].status = "approved") =>
                  \E k \in 1..Len(resp.rows) :
                    /\ resp.rows[k].id = products[i].id
                    /\ resp.rows[k].farmer_name = users[j].name)
    /\ [][(/\ resp'.op = "create"
           /\ ApprovedFarmerHdr(resp'.hdr)
           /\ Claims(resp'.hdr).id \in refused
           /\ \E body \in Bodies : ValidBody(body) /\ CreateProductReq(resp'.hdr, body))
            => /\ resp'.code = 201
               /\ Len(products') = Len(products) + 1
               /\ products'[Len(products')].farmer_id = Claims(resp'.hdr).id]_vars

\* the whole scenario has run: the farmer holds the pending token of the
\* registration and the approved token of the later login, was refused while
\* pending, owns a product, and the listing just taken shows it under the
\* farmer's name
C10_Witness ==
    /\ resp.op = "list"
    /\ \E i \in 1..Len(products) :
         \E j \in OwnersOf(products[i]) :
           /\ users[j].id \in refused
           /\ PendingClaimsOf(users[j]) \in tokens
           /\ ApprovedClaimsOf(users[j]) \in tokens
           /\ \E k \in 1..Len(resp.rows) :
                /\ resp.rows[k].id = products[i].id
                /\ resp.rows[k].farmer_name = users[j].name

\* ------------------------------------------------------------------- login
\* the stored users with this email whose stored hash is the hash of password
Matching(body) ==
    {i \in UsersByEmail(body.email[1]) :
       body.password # NULL /\ users[i].password_hash = BcryptHash(body.password[1])}

C12_AdminOnly ==
    [][(/\ resp'.op \in {"pending", "approve"}
        /\ resp'.hdr.kind = "bearer"
        /\ Claims(resp'.hdr).role # "admin")
         => /\ resp'.code = 403
            /\ users' = users]_vars

\* a pending farmer asked for their own approval, got 403 and is still pending
C12_Witness ==
    /\ resp.op = "approve"
    /\ resp.code = 403
    /\ PendingFarmerHdr(resp.hdr)
    /\ resp.target = Claims(resp.hdr).id
    /\ \E i \in 1..Len(users) : users[i].id = resp.target /\ users[i].status = "pending"

\* ------------------------------------------------------------- guard order
ProtectedOps == {"create", "update", "delete", "pending", "approve"}

\* the role/status guard of the route that served resp passes this header
GuardPasses(op, hdr) ==
    IF op \in {"pending", "approve"} THEN AdminHdr(hdr) ELSE ApprovedFarmerHdr(hdr)

\* C13: on every protected route a request without a verifiable token gets
\* 401; an authenticated request failing the role/status guard gets 403, also
\* when its body is invalid or its target product does not exist; and a
\* request refused by a guard leaves users and products unchanged.
C13_GuardOrder ==
    [][resp'.op \in ProtectedOps =>
         /\ resp'.hdr.kind # "bearer" =>
              resp'.code = 401 /\ users' = users /\ products' = products
         /\ (resp'.hdr.kind = "bearer" /\ ~GuardPasses(resp'.op, resp'.hdr)) =>
              resp'.code = 403 /\ users' = users /\ products' = products
         /\ resp'.code \in {401, 403} => users' = users /\ products' = products
         /\ \A body \in Bodies :
              (/\ resp'.op = "create"
               /\ ~ValidBody(body)
               /\ CreateProductReq(resp'.hdr, body)
               /\ ~(resp'.hdr.kind = "bearer" /\ GuardPasses("create", resp'.hdr)))
                => resp'.code \in {401, 403}]_vars

\* a pending farmer's update of a product id that does not exist got 403
C13_Witness ==
    /\ resp.op = "update"
    /\ resp.code = 403
    /\ PendingFarmerHdr(resp.hdr)
    /\ \A i \in 1..Len(products) : products[i].id # resp.target

\* ------------------------------------------------------ creating a product
\* name, price and quantity are present and neither number is zero
RequiredGiven(body) ==
    /\ body.name # NULL
    /\ body.price # NULL /\ body.price # Val(0)
    /\ body.quantity # NULL /\ body.quantity # Val(0)

\* the creation added one row, owned by the token's id, after the old rows
AddedOne(hdr) ==
    /\ resp'.code = 201
    /\ Len(products') = Len(products) + 1
    /\ SubSeq(products', 1, Len(products)) = products
    /\ products'[Len(products')].farmer_id = Claims(hdr).id

Provided(f, old) == IF f # NULL THEN f ELSE old

\* C15: a successful update sets each of name, price, quantity, image_url and
\* description to the value provided, keeps the stored value of a field that
\* is omitted or null (so a set optional field never becomes null), and
\* leaves the product's id and farmer_id and every other product unchanged.
C15_UpdateMerge ==
    [][\A body \in UpdateBodies :
         (/\ resp'.op = "update"
          /\ resp'.code = 200
          /\ UpdateProductReq(resp'.hdr, resp'.target, body))
           => /\ Len(products') = Len(products)
              /\ \A i \in 1..Len(products) :
                   IF products[i].id = resp'.target
                   THEN /\ products'[i].name = Provided(body.name, products[i].name)
                        /\ products'[i].price = Provided(body.price, products[i].price)
                        /\ products'[i].quantity = Provided(body.quantity, products[i].quantity)
                        /\ products'[i].image_url = Provided(body.image_url, products[i].image_url)
                        /\ products'[i].description =
                             Provided(body.description, products[i].description)
                        /\ products[i].image_url # NULL => products'[i].image_url # NULL
                        /\ products[i].description # NULL => products'[i].description # NULL
                        /\ products'[i].id = products[i].id
                        /\ products'[i].farmer_id = products[i].farmer_id
                        /\ resp'.rows = <<products'[i]>>
                   ELSE products'[i] = products[i]]_vars

\* of two products, one was updated with a body giving price and image_url
\* only: it has the new price and image and still its description, and the
\* other product still has its own price
C15_Witness ==
    /\ resp.op = "update"
    /\ resp.code = 200
    /\ Len(products) = 2
    /\ \E i, j \in 1..2 :
         /\ i # j
         /\ products[i].id = resp.target
         /\ products[i].name = Val("maize")
         /\ products[i].price = Val(7)
         /\ products[i].image_url = Val("beans.png")
         /\ products[i].description = Val("fresh")
         /\ products[j].price = Val(5)

\* ------------------------------------------------------ interleaved requests
\* C16: under any interleaving of PUT and DELETE requests on one product id
\* made with its owner's approved token, every PUT answers 200 with the
\* updated product row or 404: never 200 without a product.
C16_PutCarriesRow ==
    (resp.op = "update" /\ ApprovedFarmerHdr(resp.hdr)) =>
        \/ resp.code = 404
        \/ resp.code = 200 /\ Len(resp.rows) = 1

\* C17: under any interleaving of register requests for one email, a request
\* that passes validation is answered 201 or 409, never 500.
C17_RegisterNever500 ==
    resp.op = "register" => resp.code \in {201, 400, 409}

\* C18: every product's farmer_id is the id of a stored user with role
\* farmer, product ids are unique, and from one state to the next a product
\* that is still stored has the farmer_id it had, a new product has a new id.
C18_ProductOwner ==
    /\ [](\A i \in 1..Len(products) :
            /\ \E j \in OwnersOf(products[i]) : users[j].role = "farmer"
            /\ \A k \in 1..Len(products) : products[k].id = products[i].id => k = i)
    /\ [][\A k \in 1..Len(products') :
            IF products'[k].id < nextPid
            THEN \E i \in 1..Len(products) :
                   /\ products[i].id = products'[k].id
                   /\ products[i].farmer_id = products'[k].farmer_id
            ELSE products'[k].id = nextPid /\ nextPid' = nextPid + 1]_vars

\* an update suspended before its UPDATE statement has just finished on a
\* product that is still stored, while a third user has registered meanwhile
C18_Witness ==
    /\ resp.op = "update"
    /\ resp.code = 200
    /\ Len(resp.rows) = 1
    /\ Len(users) = 3
    /\ \E i \in 1..Len(products) :
         /\ products[i].id = resp.target
         /\ products[i].farmer_id = Claims(resp.hdr).id
         /\ products[i].name = Val("maize")

\* ------------------------------------------------------------------ tokens
\* C19: every token issued has the id and role of a stored user, and a token
\* whose status claim is approved belongs to a user stored as approved: a
\* token's status may lag behind the store, it is never ahead of it.
C19_TokensNotAhead ==
    \A t \in tokens :
      \E i \in 1..Len(users) :
        /\ users[i].id = t.id
        /\ users[i].role = t.role
        /\ t.status = "approved" => users[i].status = "approved"

\* a farmer holds both the lagging token of the registration and the token of
\* a login after the approval, beside a consumer's token
C19_Witness ==
    /\ \E i \in 1..Len(users) :
         /\ users[i].role = "farmer"
         /\ users[i].status = "approved"
         /\ {PendingClaimsOf(users[i]), ApprovedClaimsOf(users[i])} \subseteq tokens
    /\ \E t \in tokens : t.role = "consumer"

\* ------------------------------------------------------------------- admins
Admins(us) == {us[i].id : i \in {j \in 1..Len(us) : us[j].role = "admin"}}

\* C20: no request creates a user with role admin or changes the role of a
\* stored user; a registration asking for a role other than consumer or
\* farmer answers 400 and creates no user; the admins are those of the store
\* before the first request.
C20_NoNewAdmin ==
    /\ [](Admins(users) = Admins(SeedInsert(<<>>)))
    /\ [][/\ Len(users') >= Len(users)
          /\ \A i \in 1..Len(users) :
               users'[i].id = users[i].id /\ users'[i].role = users[i].role
          /\ \A k \in (Len(users) + 1)..Len(users') : users'[k].role # "admin"
          /\ \A body \in RegBodies :
               (/\ resp'.op = "register"
                /\ body.role \notin {Val("consumer"), Val("farmer")}
                /\ RegisterReq(body))
                 => resp'.code = 400 /\ users' = users]_vars

\* with two accounts registered, a registration asking for the admin role
\* was answered 400 and the seeded admin is still the only one
C20_Witness ==
    /\ resp.op = "register"
    /\ resp.code = 400
    /\ resp.error = "Invalid role"
    /\ Len(users) = 3
    /\ Admins(users) = {1}
====
